---- MODULE Spec2Model ----
(***************************************************************************)
(* DayDayArXiv frontend data-access layer: lib/utils.ts (date              *)
(* normalisation), lib/dataCache.ts (IndexedDB cache with a 24 h TTL) and  *)
(* lib/api.ts (fetchDailyData, getAvailableIndex, getAvailableDates,       *)
(* dataExists).                                                            *)
(*                                                                         *)
(* Text is modelled as a sequence of tokens; a day string is the sequence  *)
(* of its ten characters.  A JavaScript Date is an absolute instant, kept  *)
(* as the UTC calendar day and UTC hour it falls on; the caller's time     *)
(* zone is a whole number of hours east of UTC (tz).                       *)
(***************************************************************************)
EXTENDS Integers, Sequences, FiniteSets, TLC

VARIABLES
    tz,           \* the caller's UTC offset, hours east of UTC
    dn,           \* the date functions applied to one input
    hasWindow,    \* typeof window !== 'undefined'
    dbOpens,      \* indexedDB.open succeeds
    now,          \* Date.now()
    dataStore,    \* object store dataCache: key -> CacheEntry
    metaStore,    \* object store metaCache: the entry at 'metadata', or NoEntry
    dataQueue,    \* transactions on dataCache, in creation order
    metaQueue,    \* transactions on metaCache, in creation order
    published,    \* the <<day, category>> resources the server holds
    calls,        \* the calls of the data-access layer in progress
    past,         \* per <<date, category>>, what the last fetchDailyData resolved to
    home          \* the state and the loads in progress of the Home page

vars == <<tz, dn, hasWindow, dbOpens, now, dataStore, metaStore, dataQueue,
          metaQueue, published, calls, past, home>>

dalVars == <<hasWindow, dbOpens, now, dataStore, metaStore, dataQueue,
             metaQueue, published, calls, past, home>>

----------------------------------------------------------------------------
(* Calendar arithmetic behind Date, Date.UTC and the Date getters.         *)

IsLeap(y) == (y % 4 = 0 /\ y % 100 # 0) \/ y % 400 = 0

DaysInMonth(y, m) ==
    IF m = 2 THEN (IF IsLeap(y) THEN 29 ELSE 28)
    ELSE IF m \in {4, 6, 9, 11} THEN 30 ELSE 31

Civil(y, m, d) == [y |-> y, m |-> m, d |-> d]

NextDay(c) ==
    IF c.d < DaysInMonth(c.y, c.m) THEN Civil(c.y, c.m, c.d + 1)
    ELSE IF c.m < 12 THEN Civil(c.y, c.m + 1, 1)
    ELSE Civil(c.y + 1, 1, 1)

PrevDay(c) ==
    IF c.d > 1 THEN Civil(c.y, c.m, c.d - 1)
    ELSE IF c.m > 1 THEN Civil(c.y, c.m - 1, DaysInMonth(c.y, c.m - 1))
    ELSE Civil(c.y - 1, 12, 31)

\* An instant: the UTC day it falls on and the UTC hour of that day.
Instant(c, h) == [day |-> c, hour |-> h]

\* Normalises an hour count outside 0..23 into the neighbouring day, as the
\* Date constructor and Date.UTC do with out-of-range fields.
RECURSIVE NormaliseInstant(_, _)
NormaliseInstant(c, h) ==
    IF h >= 24 THEN NormaliseInstant(NextDay(c), h - 24)
    ELSE IF h < 0 THEN NormaliseInstant(PrevDay(c), h + 24)
    ELSE Instant(c, h)

\* Date.UTC(year, month - 1, day, hour, 0, 0)
DateUTC(y, m, d, h) == NormaliseInstant(Civil(y, m, d), h)

\* new Date(year, month - 1, day, hour, 0, 0) in a zone off hours east of UTC
NewLocalDate(y, m, d, h, off) == NormaliseInstant(Civil(y, m, d), h - off)

\* getUTCFullYear / getUTCMonth + 1 / getUTCDate
UtcFields(date) == date.day

\* getFullYear / getMonth + 1 / getDate in a zone off hours east of UTC
LocalFields(date, off) == NormaliseInstant(date.day, date.hour + off).day

----------------------------------------------------------------------------
(* Text: digits, padding, the DATE_RE pattern.                             *)

DigitChars == <<"0", "1", "2", "3", "4", "5", "6", "7", "8", "9">>

IsDigit(ch) == \E i \in 1..10 : DigitChars[i] = ch

DigitVal(ch) == (CHOOSE i \in 1..10 : DigitChars[i] = ch) - 1

\* String(n) for a non-negative integer
RECURSIVE NumberToString(_)
NumberToString(n) ==
    IF n < 10 THEN <<DigitChars[n + 1]>>
    ELSE NumberToString(n \div 10) \o <<DigitChars[(n % 10) + 1]>>

\* Number(digits) for a run of decimal digits
RECURSIVE StringToNumber(_)
StringToNumber(s) ==
    IF Len(s) = 0 THEN 0
    ELSE 10 * StringToNumber(SubSeq(s, 1, Len(s) - 1)) + DigitVal(s[Len(s)])

\* s.padStart(width, "0")
RECURSIVE PadStart(_, _)
PadStart(s, width) ==
    IF Len(s) >= width THEN s ELSE PadStart(<<"0">> \o s, width)

\* DATE_RE = /^(\d{4})-(\d{2})-(\d{2})$/
DATE_RE(s) ==
    /\ Len(s) = 10
    /\ s[5] = "-" /\ s[8] = "-"
    /\ \A i \in {1, 2, 3, 4, 6, 7, 9, 10} : IsDigit(s[i])

LOCAL_DAY_ANCHOR_HOUR == 12

NoDate == [day |-> Civil(0, 0, 0), hour |-> 0 - 1]

\* s.trim()
RECURSIVE Trim(_)
Trim(s) ==
    IF Len(s) > 0 /\ s[1] = " " THEN Trim(Tail(s))
    ELSE IF Len(s) > 0 /\ s[Len(s)] = " " THEN Trim(SubSeq(s, 1, Len(s) - 1))
    ELSE s

\* utils.ts parseLocalDate; a string DATE_RE rejects goes to new Date(text),
\* which yields an Invalid Date for the inputs modelled here.
parseLocalDate(dateStr, off) ==
    LET trimmed == Trim(dateStr)
    IN  IF ~DATE_RE(trimmed) THEN NoDate
        ELSE
            LET year  == StringToNumber(SubSeq(trimmed, 1, 4))
                month == StringToNumber(SubSeq(trimmed, 6, 7))
                day   == StringToNumber(SubSeq(trimmed, 9, 10))
                utcAnchor == DateUTC(year, month, day, LOCAL_DAY_ANCHOR_HOUR)
                f == LocalFields(utcAnchor, off)
            IN  NewLocalDate(f.y, f.m, f.d, 0, off)

\* utils.ts formatUtcDateFromLocal
formatUtcDateFromLocal(date, off) ==
    LET l == LocalFields(date, off)
        localAnchor == NewLocalDate(l.y, l.m, l.d, LOCAL_DAY_ANCHOR_HOUR, off)
        u == UtcFields(localAnchor)
        year  == NumberToString(u.y)
        month == PadStart(NumberToString(u.m), 2)
        day   == PadStart(NumberToString(u.d), 2)
    IN  year \o <<"-">> \o month \o <<"-">> \o day

\* date-fns format(date, "yyyy-MM-dd"): the local calendar day, zero padded
formatLocalDay(date, off) ==
    LET l == LocalFields(date, off)
    IN  PadStart(NumberToString(l.y), 4) \o <<"-">>
        \o PadStart(NumberToString(l.m), 2) \o <<"-">>
        \o PadStart(NumberToString(l.d), 2)

\* The calendar day a canonical day string names.
DayStringFields(s) ==
    Civil(StringToNumber(SubSeq(s, 1, 4)), StringToNumber(SubSeq(s, 6, 7)),
          StringToNumber(SubSeq(s, 9, 10)))

\* The fields of a time of day written HH:MM:SS.
TimeStringFields(s) ==
    [h  |-> StringToNumber(SubSeq(s, 1, 2)),
     mi |-> StringToNumber(SubSeq(s, 4, 5)),
     se |-> StringToNumber(SubSeq(s, 7, 8))]

\* /\d{4}-\d{2}-\d{2}/ and /\d{2}:\d{2}:\d{2}/ over a whole string
IsDayText(s) == DATE_RE(s)

IsTimeText(s) ==
    /\ Len(s) = 8
    /\ s[3] = ":" /\ s[6] = ":"
    /\ \A i \in {1, 2, 4, 5, 7, 8} : IsDigit(s[i])

\* A run of zero or more copies of one character.
IsRunOf(s, ch) == \A i \in 1..Len(s) : s[i] = ch

\* UTC_TIMESTAMP_RE = /^(\d{4}-\d{2}-\d{2})[ T](\d{2}:\d{2}:\d{2})\\s*UTC$/
\* In a regular expression literal the two characters \\ match one
\* backslash, and the s* after them matches a run of the letter s.
UTC_TIMESTAMP_RE(s) ==
    /\ Len(s) >= 23
    /\ IsDayText(SubSeq(s, 1, 10))
    /\ s[11] \in {" ", "T"}
    /\ IsTimeText(SubSeq(s, 12, 19))
    /\ s[20] = "\\"
    /\ IsRunOf(SubSeq(s, 21, Len(s) - 3), "s")
    /\ SubSeq(s, Len(s) - 2, Len(s)) = <<"U", "T", "C">>

\* What parseUtcTimestamp returns: null, or a Date that is an instant or an
\* Invalid Date.
NullTimestamp == [kind |-> "null"]

InvalidTimestamp == [kind |-> "invalid"]

UtcTimestamp(c, t) == [kind |-> "date", day |-> c, h |-> t.h, mi |-> t.mi, se |-> t.se]

\* new Date("YYYY-MM-DDTHH:MM:SSZ"): the date-time string format of the
\* language, read as UTC; fields out of range give an Invalid Date.
IsoDate(dayText, timeText) ==
    LET c == DayStringFields(dayText)
        t == TimeStringFields(timeText)
    IN  IF /\ c.m \in 1..12 /\ c.d \in 1..DaysInMonth(c.y, c.m)
           /\ t.h \in 0..23 /\ t.mi \in 0..59 /\ t.se \in 0..59
        THEN UtcTimestamp(c, t) ELSE InvalidTimestamp

IsIsoText(s) ==
    /\ Len(s) = 20
    /\ IsDayText(SubSeq(s, 1, 10))
    /\ s[11] = "T"
    /\ IsTimeText(SubSeq(s, 12, 19))
    /\ s[20] = "Z"

\* Text outside the date-time string format that engines with a lenient
\* fallback still read: day, blank or T, time, blanks, UTC.
IsLegacyUtcText(s) ==
    /\ Len(s) >= 22
    /\ IsDayText(SubSeq(s, 1, 10))
    /\ s[11] \in {" ", "T"}
    /\ IsTimeText(SubSeq(s, 12, 19))
    /\ IsRunOf(SubSeq(s, 20, Len(s) - 3), " ")
    /\ SubSeq(s, Len(s) - 2, Len(s)) = <<"U", "T", "C">>

\* new Date(text): text in the date-time string format is read as the
\* language prescribes; any other text is left to the engine, which either
\* reads it (lenient) or gives an Invalid Date.
NewDateOfText(s, lenient) ==
    IF IsIsoText(s) THEN IsoDate(SubSeq(s, 1, 10), SubSeq(s, 12, 19))
    ELSE IF lenient /\ IsLegacyUtcText(s)
         THEN IsoDate(SubSeq(s, 1, 10), SubSeq(s, 12, 19))
    ELSE InvalidTimestamp

\* utils.ts parseUtcTimestamp
parseUtcTimestamp(value, lenient) ==
    LET trimmed == Trim(value)
    IN  IF ~UTC_TIMESTAMP_RE(trimmed)
        THEN LET fallback == NewDateOfText(trimmed, lenient)
             IN  IF fallback = InvalidTimestamp THEN NullTimestamp ELSE fallback
        ELSE IsoDate(SubSeq(trimmed, 1, 10), SubSeq(trimmed, 12, 19))

----------------------------------------------------------------------------
(* Model bounds and input sets.                                            *)

\* Milliseconds between two readings of Date.now() that the model separates:
\* a record is new, exactly one TTL old, or older.
TickMs == 24 * 60 * 60 * 1000

MaxTicks == 2

MaxNow == MaxTicks * TickMs

\* UTC offsets in use on Earth, in whole hours east of UTC.
UtcOffsets == (0 - 12)..14

\* Offsets of the callers of the data-access layer.
CallerOffsets == {0, 13}

\* Calendar days used as inputs of the date functions.
CivilDays ==
    {Civil(2024, 2, 28), Civil(2024, 2, 29), Civil(2024, 12, 31),
     Civil(2025, 1, 1), Civil(2025, 2, 28), Civil(2025, 3, 13),
     Civil(2025, 3, 14), Civil(2025, 10, 9)}

\* The days the calendar of the page lets a caller select.
SelectableDays == {Civil(2025, 3, 13), Civil(2025, 3, 14)}

Categories == {"cs.AI"}

CallIds == {1}

\* "YYYY-MM-DD" of a calendar day, as the pipeline names its folders.
DayString(c) ==
    PadStart(NumberToString(c.y), 4) \o <<"-">> \o PadStart(NumberToString(c.m), 2)
    \o <<"-">> \o PadStart(NumberToString(c.d), 2)

\* The days the pipeline publishes data for.
ServerDays == {DayString(c) : c \in SelectableDays}

----------------------------------------------------------------------------
(* Values: DailyData, DataIndex, cache entries.                            *)

\* A payload the pipeline wrote to /data/{day}/{category}.json: the
\* DailyData fields and the pipeline's own processing_status, which the
\* output keeps.
Payload(dayStr, category) ==
    [date |-> dayStr, category |-> category,
     summary |-> <<"digest of ", category, " on ">> \o dayStr,
     papers |-> <<[arxiv_id |-> dayStr \o <<"/", category>>]>>,
     processing_status |-> "completed"]

\* NoPapersData that reports the absence as a failure.
NoPapersDataAsFailed(dateStr, category) ==
    [date |-> dateStr, category |-> category,
     summary |-> <<"data load failed">>,
     papers |-> <<>>,
     processing_status |-> "failed"]

\* api.ts 38-44: the 404 placeholder
NoPapersData(dateStr, category) ==
    [date |-> dateStr, category |-> category,
     summary |-> <<"No data available for ", category, " on ">> \o dateStr \o <<".">>,
     papers |-> <<>>,
     processing_status |-> "no_papers"]

\* FailedStatusData that leaves the error text empty.
FailedStatusDataNoError(dateStr, category, status, statusText) ==
    [date |-> dateStr, category |-> category,
     summary |-> <<"data load failed (", status, ")">>,
     papers |-> <<>>,
     processing_status |-> "failed",
     error |-> <<>>]

\* api.ts 46-55: the placeholder for a non-2xx status other than 404
FailedStatusData(dateStr, category, status, statusText) ==
    [date |-> dateStr, category |-> category,
     summary |-> <<"data load failed (", status, ")">>,
     papers |-> <<>>,
     processing_status |-> "failed",
     error |-> <<"Failed to load ">> \o dateStr \o <<"/", category, ": ", status, " ", statusText>>]

\* api.ts 67-80: the placeholder of the catch block
FailedExceptionData(dateStr, category, errorMessage) ==
    [date |-> dateStr, category |-> category,
     summary |-> <<"data load failed">>,
     papers |-> <<>>,
     processing_status |-> "failed",
     error |-> <<"Failed to load ">> \o dateStr \o <<"/", category, ": ", errorMessage>>]

\* The length of a text in characters is positive.
NonEmptyText(t) == \E i \in 1..Len(t) : t[i] # ""

NoEntry == [absent |-> TRUE]

\* dataCache.ts CacheEntry
CacheEntry(data, timestamp) == [data |-> data, timestamp |-> timestamp]

\* dataCache.ts MetaEntry
MetaEntry(index, lastUpdated) == [index |-> index, lastUpdated |-> lastUpdated]

\* dataCache.ts 12
CACHE_EXPIRATION == 24 * 60 * 60 * 1000

\* IsExpired with the comparison widened to the TTL itself.
IsExpiredAtTtl(timestamp, t) == t - timestamp >= CACHE_EXPIRATION

\* dataCache.ts 100, 162, 218: Date.now() - timestamp > CACHE_EXPIRATION
IsExpired(timestamp, t) == t - timestamp > CACHE_EXPIRATION

\* dataCache.ts 61, 86: `${format(date, 'yyyy-MM-dd')}/${category}`
CacheKey(date, category, off) == formatLocalDay(date, off) \o <<"/", category>>

\* An object store: a function from the keys it holds to their entries.
EmptyStore == [k \in {} |-> NoEntry]

StoreGet(store, key) == IF key \in DOMAIN store THEN store[key] ELSE NoEntry

StorePut(store, key, entry) ==
    [k \in DOMAIN store \cup {key} |-> IF k = key THEN entry ELSE store[k]]

StoreDelete(store, key) == [k \in DOMAIN store \ {key} |-> store[k]]

\* Key order of an object store: strings compare by code unit.
CodeUnitOrder ==
    <<"-", "/", "0", "1", "2", "3", "4", "5", "6", "7", "8", "9", "cs.AI", "cs.CL">>

CodeUnitRank(t) == CHOOSE i \in 1..Len(CodeUnitOrder) : CodeUnitOrder[i] = t

RECURSIVE KeyLess(_, _)
KeyLess(a, b) ==
    IF Len(b) = 0 THEN FALSE
    ELSE IF Len(a) = 0 THEN TRUE
    ELSE IF a[1] = b[1] THEN KeyLess(Tail(a), Tail(b))
    ELSE CodeUnitRank(a[1]) < CodeUnitRank(b[1])

\* The first key of the store after position cursor (<<>> before the first).
KeysAfter(store, cursor) == {k \in DOMAIN store : KeyLess(cursor, k)}

NextKey(store, cursor) ==
    CHOOSE k \in KeysAfter(store, cursor) :
        \A j \in KeysAfter(store, cursor) : j = k \/ KeyLess(k, j)

\* DataIndex, and null for "no index"
NullIndex == [null |-> TRUE]

RECURSIVE SortedDays(_)
SortedDays(days) ==
    IF days = {} THEN <<>>
    ELSE LET first == CHOOSE d \in days : \A e \in days : e = d \/ KeyLess(d, e)
         IN  <<first>> \o SortedDays(days \ {first})

\* The index.json the pipeline writes for a set of published resources.
IndexOf(pub) ==
    LET days == {r[1] : r \in pub}
    IN  [available_dates |-> SortedDays(days),
         categories |-> {r[2] : r \in pub},
         by_date |-> [d \in days |-> {r[2] : r \in {q \in pub : q[1] = d}}]]

\* IndexIncludes that looks for the category under any day of the index.
IndexIncludesAnyDay(index, dateStr, category) ==
    \E d \in DOMAIN index.by_date : category \in index.by_date[d]

\* index.by_date[dateStr]?.includes(category) ?? false
IndexIncludes(index, dateStr, category) ==
    IF dateStr \in DOMAIN index.by_date THEN category \in index.by_date[dateStr] ELSE FALSE

----------------------------------------------------------------------------
(* Calls of the data-access layer and the transactions they create.        *)

NoResult == [kind |-> "none"]

DataResult(data) == [kind |-> "data", data |-> data]

BoolResult(b) == [kind |-> "bool", value |-> b]

IndexResult(index) == [kind |-> "index", index |-> index]

DatesResult(dates) == [kind |-> "dates", dates |-> dates]

\* getAvailableDates() called without a category
NoCategory == ""

\* getCachedData's null
NoData == [null |-> TRUE]

\* A call: its arguments, where it is suspended (pc), how its last cache
\* read and cache write ended (read, write), its locals cachedData and
\* cachedIndex, how its last network request ended (resp), the index.json
\* body on its way to it (body), and what it resolved to (result).
IdleCall ==
    [op |-> "idle", date |-> NoDate, category |-> "", pc |-> "idle",
     read |-> "none", write |-> "none", cachedData |-> NoData,
     cachedIndex |-> NullIndex, resp |-> "none", body |-> NullIndex,
     result |-> NoResult]

NewCall(op, date, category) ==
    [op |-> op, date |-> date, category |-> category, pc |-> "start",
     read |-> "none", write |-> "none", cachedData |-> NoData,
     cachedIndex |-> NullIndex, resp |-> "none", body |-> NullIndex,
     result |-> NoResult]

\* A transaction with its one request; call 0 owns a transaction nobody awaits.
Tx(kind, key, entry, call) ==
    [kind |-> kind, key |-> key, entry |-> entry, call |-> call,
     started |-> FALSE, undo |-> EmptyStore]

\* What a step of a call leaves behind: the call, and transactions created.
Step(call, dq, mq) == [call |-> call, dq |-> dq, mq |-> mq]

\* api.ts 30, 69, 132
DateStrOf(r) == formatUtcDateFromLocal(r.date, tz)

\* dataCache.ts 61, 86
KeyOf(r) == CacheKey(r.date, r.category, tz)

\* api.ts 86-91: getCachedIndex().catch(() => null), then fetch index.json
StartGetAvailableIndex(r, id) ==
    IF hasWindow /\ dbOpens
    THEN Step([r EXCEPT !.pc = "gci_get"], <<>>, <<Tx("get", <<"metadata">>, NoEntry, id)>>)
    ELSE Step([r EXCEPT !.pc = "fetching_index", !.cachedIndex = NullIndex], <<>>, <<>>)

\* api.ts 116-119: the days of the index, those under which by_date lists
\* the category when one is given, each turned into a Date by parseLocalDate
AvailableDates(index, category, off) ==
    LET availableDates ==
            IF category # NoCategory
            THEN SelectSeq(index.available_dates,
                           LAMBDA dateStr : IndexIncludes(index, dateStr, category))
            ELSE index.available_dates
    IN  [i \in 1..Len(availableDates) |-> parseLocalDate(availableDates[i], off)]

\* getAvailableDatesReturn without the test for a missing index: reading
\* available_dates of null throws.
getAvailableDatesNoNullCheck(r, index) ==
    IF index = NullIndex
    THEN [r EXCEPT !.pc = "rejected"]
    ELSE [r EXCEPT !.pc = "done",
                   !.result = DatesResult(AvailableDates(index, r.category, tz))]

\* api.ts 112-119: getAvailableDates after getAvailableIndex returned
getAvailableDatesReturn(r, index) ==
    IF index = NullIndex
    THEN [r EXCEPT !.pc = "done", !.result = DatesResult(<<>>)]
    ELSE [r EXCEPT !.pc = "done",
                   !.result = DatesResult(AvailableDates(index, r.category, tz))]

\* api.ts 94, 104, 107, then 112 and 133-139: getAvailableIndex returns index
ReturnIndex(r, index) ==
    IF r.op = "getAvailableIndex"
    THEN [r EXCEPT !.pc = "done", !.result = IndexResult(index)]
    ELSE IF r.op = "getAvailableDates"
    THEN getAvailableDatesReturn(r, index)
    ELSE IF index # NullIndex
         THEN [r EXCEPT !.pc = "done",
                        !.result = BoolResult(IndexIncludes(index, DateStrOf(r), r.category))]
         ELSE [r EXCEPT !.pc = "probing", !.result = NoResult]

\* ContentMiss that joins a request already in flight for the same key
\* instead of issuing its own.
ContentMissJoinsInFlight(r, id) ==
    IF r.op = "fetchDailyData"
    THEN IF \E other \in DOMAIN calls \ {id} :
                /\ calls[other].pc = "fetching"
                /\ KeyOf(calls[other]) = KeyOf(r)
         THEN Step([r EXCEPT !.pc = "joined"], <<>>, <<>>)
         ELSE Step([r EXCEPT !.pc = "fetching"], <<>>, <<>>)
    ELSE StartGetAvailableIndex(r, id)

\* api.ts 29-33 and 132-133: getCachedData returned null
ContentMiss(r, id) ==
    IF r.op = "fetchDailyData"
    THEN Step([r EXCEPT !.pc = "fetching"], <<>>, <<>>)
    ELSE StartGetAvailableIndex(r, id)

\* ContentHit that goes on to the network although the cache answered.
ContentHitIgnored(r) == [r EXCEPT !.pc = "fetching"]

\* api.ts 23-26 and 127-129: getCachedData returned data
ContentHit(r) ==
    IF r.op = "fetchDailyData"
    THEN [r EXCEPT !.pc = "done", !.result = DataResult(r.cachedData)]
    ELSE [r EXCEPT !.pc = "done", !.result = BoolResult(TRUE)]

\* fetchDailyDataCatch that lets the exception out of fetchDailyData.
fetchDailyDataCatchRethrows(r, errorMessage) == [r EXCEPT !.pc = "rejected"]

\* api.ts 67-80: the catch block of fetchDailyData
fetchDailyDataCatch(r, errorMessage) ==
    [r EXCEPT !.pc = "done",
              !.result = DataResult(FailedExceptionData(DateStrOf(r), r.category,
                                                        errorMessage))]

\* api.ts 140-143: the catch block of dataExists
dataExistsCatch(r) == [r EXCEPT !.pc = "done", !.result = BoolResult(FALSE)]

\* dataCache.ts 112 rejects the promise that getCachedData returned without
\* awaiting it, so the rejection passes dataCache.ts 114 and reaches the
\* catch block of the caller.
ContentReject(r) ==
    IF r.op = "fetchDailyData"
    THEN fetchDailyDataCatch(r, "Error retrieving cached data")
    ELSE dataExistsCatch(r)

\* StartGetCachedData whose getCachedData lets the failure of openDB out.
StartGetCachedDataOpenThrows(r, id) ==
    IF hasWindow /\ dbOpens
    THEN Step([r EXCEPT !.pc = "gcd_get"], <<Tx("get", KeyOf(r), NoEntry, id)>>, <<>>)
    ELSE IF hasWindow
    THEN Step(ContentReject([r EXCEPT !.read = "error"]), <<>>, <<>>)
    ELSE ContentMiss(r, id)

\* api.ts 21-22, 125-126 with dataCache.ts 80-89
StartGetCachedData(r, id) ==
    IF hasWindow /\ dbOpens
    THEN Step([r EXCEPT !.pc = "gcd_get"], <<Tx("get", KeyOf(r), NoEntry, id)>>, <<>>)
    ELSE ContentMiss(r, id)

\* A DailyData that fetchDailyData made up itself (api.ts 38-44, 48-55, 72-79).
IsSynthesized(d) ==
    /\ "processing_status" \in DOMAIN d
    /\ d.papers = <<>>
    /\ Head(d.summary) \in {"No data available for ", "data load failed (", "data load failed"}

\* No history is kept.
NoPast == [k \in {} |-> "none"]

\* What a caller remembers of the fetchDailyData calls it made: when a
\* history is kept, the kind of value the call for r.date and r.category
\* resolved to replaces the one of the call before it.
RecordPast(r) ==
    IF r.op = "fetchDailyData" /\ <<r.date, r.category>> \in DOMAIN past
    THEN [past EXCEPT ![<<r.date, r.category>>] =
              IF IsSynthesized(r.result.data) THEN "placeholder" ELSE "payload"]
    ELSE past

----------------------------------------------------------------------------
(* The environment: clock, storage availability, the publishing pipeline.  *)

\* The Home page is not mounted.
HomeIdle == [mounted |-> FALSE]

DnIdle == [stage |-> "idle", s |-> <<>>, date |-> NoDate, out |-> <<>>]

Init ==
    /\ tz \in CallerOffsets
    /\ dn = DnIdle
    /\ home = HomeIdle
    /\ hasWindow \in BOOLEAN
    /\ dbOpens \in (IF hasWindow THEN BOOLEAN ELSE {FALSE})
    /\ now = 0
    /\ dataStore = EmptyStore
    /\ metaStore = NoEntry
    /\ dataQueue = <<>>
    /\ metaQueue = <<>>
    /\ published = {}
    /\ calls = [id \in CallIds |-> IdleCall]
    /\ past = NoPast

Tick ==
    /\ now + TickMs <= MaxNow
    /\ now' = now + TickMs
    /\ UNCHANGED <<tz, dn, home, past, hasWindow, dbOpens, dataStore, metaStore, dataQueue,
                   metaQueue, published, calls>>

\* One run of the pipeline: the site is redeployed with one more
\* /data/{day}/{category}.json and the index.json that lists it.
Publish(day, category) ==
    /\ <<day, category>> \notin published
    /\ published' = published \cup {<<day, category>>}
    /\ UNCHANGED <<tz, dn, home, past, hasWindow, dbOpens, now, dataStore, metaStore,
                   dataQueue, metaQueue, calls>>

----------------------------------------------------------------------------
(* Calls.                                                                  *)

\* The Date a caller holds for a day selected in its own time zone.
SelectedDate(c) == NewLocalDate(c.y, c.m, c.d, 0, tz)

Apply(id, st) ==
    /\ calls' = [calls EXCEPT ![id] = st.call]
    /\ dataQueue' = dataQueue \o st.dq
    /\ metaQueue' = metaQueue \o st.mq

\* api.ts 18-27: fetchDailyData up to its first suspension
fetchDailyData(id, day, category) ==
    /\ calls[id].op = "idle"
    /\ Apply(id, StartGetCachedData(NewCall("fetchDailyData", SelectedDate(day), category), id))
    /\ UNCHANGED <<tz, dn, home, past, hasWindow, dbOpens, now, dataStore, metaStore,
                   published>>

\* api.ts 123-130: dataExists up to its first suspension
dataExists(id, day, category) ==
    /\ calls[id].op = "idle"
    /\ Apply(id, StartGetCachedData(NewCall("dataExists", SelectedDate(day), category), id))
    /\ UNCHANGED <<tz, dn, home, past, hasWindow, dbOpens, now, dataStore, metaStore,
                   published>>

\* api.ts 84-91: getAvailableIndex up to its first suspension
getAvailableIndex(id) ==
    /\ calls[id].op = "idle"
    /\ Apply(id, StartGetAvailableIndex(NewCall("getAvailableIndex", NoDate, ""), id))
    /\ UNCHANGED <<tz, dn, home, past, hasWindow, dbOpens, now, dataStore, metaStore,
                   published>>

\* api.ts 111-112: getAvailableDates up to its first suspension
getAvailableDates(id, category) ==
    /\ calls[id].op = "idle"
    /\ Apply(id, StartGetAvailableIndex(NewCall("getAvailableDates", NoDate, category), id))
    /\ UNCHANGED <<tz, dn, home, past, hasWindow, dbOpens, now, dataStore, metaStore,
                   published>>

\* api.ts 13-15 with dataCache.ts 235-241, 203-209: initCache opens the
\* store and creates the sweep's transaction.
initCache ==
    /\ hasWindow /\ dbOpens
    /\ \A i \in 1..Len(dataQueue) : dataQueue[i].kind # "sweep"
    /\ dataQueue' = Append(dataQueue, Tx("sweep", <<>>, NoEntry, 0))
    /\ UNCHANGED <<tz, dn, home, past, hasWindow, dbOpens, now, dataStore, metaStore,
                   metaQueue, published, calls>>

\* The caller takes the value a settled call resolved to.
Return(id) ==
    /\ calls[id].pc = "done"
    /\ calls' = [calls EXCEPT ![id] = IdleCall]
    /\ past' = RecordPast(calls[id])
    /\ UNCHANGED <<tz, dn, home, hasWindow, dbOpens, now, dataStore, metaStore,
                   dataQueue, metaQueue, published>>

----------------------------------------------------------------------------
(* Transactions on the object store dataCache.                             *)

HeadIs(queue, kind) == Len(queue) > 0 /\ queue[1].kind = kind

\* dataCache.ts 89-112: the get request of getCachedData succeeds or fails
getCachedData(ok) ==
    /\ HeadIs(dataQueue, "get")
    /\ LET tx == dataQueue[1]
           r == calls[tx.call]
           entry == StoreGet(dataStore, tx.key)
           expired == entry # NoEntry /\ IsExpired(entry.timestamp, now)
           st == IF ~ok THEN Step(ContentReject([r EXCEPT !.read = "error"]), <<>>, <<>>)
                 ELSE IF entry = NoEntry
                      THEN ContentMiss([r EXCEPT !.read = "absent"], tx.call)
                 ELSE IF expired
                      THEN ContentMiss([r EXCEPT !.read = "expired"], tx.call)
                 ELSE Step(ContentHit([r EXCEPT !.read = "hit", !.cachedData = entry.data]),
                           <<>>, <<>>)
           del == IF ok /\ expired THEN <<Tx("delete", tx.key, NoEntry, 0)>> ELSE <<>>
       IN  /\ calls' = [calls EXCEPT ![tx.call] = st.call]
           /\ dataQueue' = Tail(dataQueue) \o del \o st.dq
           /\ metaQueue' = metaQueue \o st.mq
    /\ UNCHANGED <<tz, dn, home, past, hasWindow, dbOpens, now, dataStore, metaStore,
                   published>>

\* deleteExpired that empties the object store instead of deleting one key.
deleteExpiredClearsStore(ok) ==
    /\ HeadIs(dataQueue, "delete")
    /\ dataStore' = IF ok THEN EmptyStore ELSE dataStore
    /\ dataQueue' = Tail(dataQueue)
    /\ UNCHANGED <<tz, dn, home, past, hasWindow, dbOpens, now, metaStore, metaQueue,
                   published, calls>>

\* dataCache.ts 102-104: the delete that getCachedData left behind
deleteExpired(ok) ==
    /\ HeadIs(dataQueue, "delete")
    /\ dataStore' = IF ok THEN StoreDelete(dataStore, dataQueue[1].key) ELSE dataStore
    /\ dataQueue' = Tail(dataQueue)
    /\ UNCHANGED <<tz, dn, home, past, hasWindow, dbOpens, now, metaStore, metaQueue,
                   published, calls>>

\* dataCache.ts 67-72 with api.ts 62-66: the transaction of cacheData
\* completes, fails with an error event, or aborts without one.
cacheData(outcome) ==
    /\ HeadIs(dataQueue, "put")
    /\ LET tx == dataQueue[1]
           r == calls[tx.call]
       IN  /\ dataStore' = IF outcome = "complete"
                           THEN StorePut(dataStore, tx.key, tx.entry) ELSE dataStore
           /\ calls' = [calls EXCEPT ![tx.call] =
                            [r EXCEPT !.pc = IF outcome = "abort" THEN "stuck" ELSE "done",
                                      !.write = outcome]]
    /\ dataQueue' = Tail(dataQueue)
    /\ UNCHANGED <<tz, dn, home, past, hasWindow, dbOpens, now, metaStore, metaQueue,
                   published>>

\* dataCache.ts 211-224: one success event of the sweep's cursor
clearExpiredCacheClearsAll ==
    /\ HeadIs(dataQueue, "sweep")
    /\ LET tx == dataQueue[1]
           undo == IF tx.started THEN tx.undo ELSE dataStore
       IN  IF KeysAfter(dataStore, tx.key) = {}
           THEN /\ dataQueue' = Tail(dataQueue)
                /\ dataStore' = dataStore
           ELSE LET k == NextKey(dataStore, tx.key)
                IN  /\ dataStore' = StoreDelete(dataStore, k)
                    /\ dataQueue' = <<[tx EXCEPT !.key = k, !.started = TRUE, !.undo = undo]>>
                                    \o Tail(dataQueue)
    /\ UNCHANGED <<tz, dn, home, past, hasWindow, dbOpens, now, metaStore, metaQueue,
                   published, calls>>

clearExpiredCache ==
    /\ HeadIs(dataQueue, "sweep")
    /\ LET tx == dataQueue[1]
           undo == IF tx.started THEN tx.undo ELSE dataStore
       IN  IF KeysAfter(dataStore, tx.key) = {}
           THEN /\ dataQueue' = Tail(dataQueue)
                /\ dataStore' = dataStore
           ELSE LET k == NextKey(dataStore, tx.key)
                IN  /\ dataStore' = IF IsExpired(dataStore[k].timestamp, now)
                                    THEN StoreDelete(dataStore, k) ELSE dataStore
                    /\ dataQueue' = <<[tx EXCEPT !.key = k, !.started = TRUE, !.undo = undo]>>
                                    \o Tail(dataQueue)
    /\ UNCHANGED <<tz, dn, home, past, hasWindow, dbOpens, now, metaStore, metaQueue,
                   published, calls>>

\* The sweep's transaction aborts: its deletions are rolled back.
clearExpiredCacheAborts ==
    /\ HeadIs(dataQueue, "sweep")
    /\ dataStore' = IF dataQueue[1].started THEN dataQueue[1].undo ELSE dataStore
    /\ dataQueue' = Tail(dataQueue)
    /\ UNCHANGED <<tz, dn, home, past, hasWindow, dbOpens, now, metaStore, metaQueue,
                   published, calls>>

----------------------------------------------------------------------------
(* Transactions on the object store metaCache.                             *)

\* dataCache.ts 153-168: what the success handler of getCachedIndex
\* resolves to when it runs at time t
FreshIndex(entry, t) ==
    IF entry = NoEntry THEN NullIndex
    ELSE IF IsExpired(entry.lastUpdated, t) THEN NullIndex
    ELSE entry.index

\* dataCache.ts 151-170 with api.ts 87: the get request of getCachedIndex
\* succeeds, or fails and .catch(() => null) takes the rejection
getCachedIndex(ok) ==
    /\ HeadIs(metaQueue, "get")
    /\ LET tx == metaQueue[1]
           r == calls[tx.call]
           cached == IF ok THEN FreshIndex(metaStore, now) ELSE NullIndex
       IN  calls' = [calls EXCEPT ![tx.call] =
                        [r EXCEPT !.pc = "fetching_index", !.cachedIndex = cached,
                                  !.read = IF ~ok THEN "error"
                                           ELSE IF metaStore = NoEntry THEN "absent"
                                           ELSE IF cached = NullIndex THEN "expired"
                                           ELSE "hit"]]
    /\ metaQueue' = Tail(metaQueue)
    /\ UNCHANGED <<tz, dn, home, past, hasWindow, dbOpens, now, dataStore, metaStore,
                   dataQueue, published>>

\* dataCache.ts 132-137 with api.ts 99-104: the transaction of cacheIndex
cacheIndex(outcome) ==
    /\ HeadIs(metaQueue, "put")
    /\ LET tx == metaQueue[1]
           r == calls[tx.call]
       IN  /\ metaStore' = IF outcome = "complete" THEN tx.entry ELSE metaStore
           /\ calls' = [calls EXCEPT ![tx.call] =
                            IF outcome = "abort"
                            THEN [r EXCEPT !.pc = "stuck", !.write = outcome]
                            ELSE ReturnIndex([r EXCEPT !.write = outcome], r.result.index)]
    /\ metaQueue' = Tail(metaQueue)
    /\ UNCHANGED <<tz, dn, home, past, hasWindow, dbOpens, now, dataStore, dataQueue,
                   published>>

----------------------------------------------------------------------------
(* Network responses.                                                      *)

\* What GET /data/{day}/{category}.json can end in.
DataOutcomes(dateStr, category) ==
    IF <<dateStr, category>> \in published
    THEN {"200", "500", "exception", "badbody"}
    ELSE {"404", "500", "exception"}

\* The server's /data/index.json, NullIndex before the first deployment.
serverIndex == IF published = {} THEN NullIndex ELSE IndexOf(published)

\* What GET /data/index.json can end in.
IndexOutcomes ==
    IF serverIndex # NullIndex
    THEN {"200", "500", "exception", "badbody"}
    ELSE {"404", "500", "exception"}

StatusText(status) == IF status = "500" THEN "Internal Server Error" ELSE "Not Found"

ErrorMessage(outcome) ==
    IF outcome = "badbody" THEN "Unexpected end of JSON input" ELSE "Failed to fetch"

\* StartCacheData that returns the payload without its processing_status.
StartCacheDataStripped(r, id, data) ==
    LET bare == [f \in DOMAIN data \ {"processing_status"} |-> data[f]]
    IN  IF hasWindow /\ dbOpens
        THEN Step([r EXCEPT !.pc = "cd_put", !.result = DataResult(bare)],
                  <<Tx("put", KeyOf(r), CacheEntry(data, now), id)>>, <<>>)
        ELSE Step([r EXCEPT !.pc = "done", !.result = DataResult(bare)], <<>>, <<>>)

\* api.ts 60-66: cacheData(date, category, data) up to its suspension
StartCacheData(r, id, data) ==
    IF hasWindow /\ dbOpens
    THEN Step([r EXCEPT !.pc = "cd_put", !.result = DataResult(data)],
              <<Tx("put", KeyOf(r), CacheEntry(data, now), id)>>, <<>>)
    ELSE Step([r EXCEPT !.pc = "done", !.result = DataResult(data)], <<>>, <<>>)

\* NotFoundReturn that writes the placeholder back to the cache.
NotFoundReturnCached(r, id) ==
    StartCacheData(r, id, NoPapersData(DateStrOf(r), r.category))

\* api.ts 36-45: the response has status 404
NotFoundReturn(r, id) ==
    Step([r EXCEPT !.pc = "done",
                   !.result = DataResult(NoPapersData(DateStrOf(r), r.category))],
         <<>>, <<>>)

\* api.ts 46-55: the response has another status outside 200-299
FailedStatusReturn(r, id, status) ==
    Step([r EXCEPT !.pc = "done",
                   !.result = DataResult(FailedStatusData(DateStrOf(r), r.category, status,
                                                          StatusText(status)))],
         <<>>, <<>>)

\* api.ts 33-66 and 67-80: the request of fetchDailyData ends
fetchResponse(id, outcome) ==
    /\ calls[id].pc = "fetching"
    /\ outcome \in DataOutcomes(DateStrOf(calls[id]), calls[id].category)
    /\ LET r == [calls[id] EXCEPT !.resp = outcome]
       IN  Apply(id,
               IF outcome = "200" THEN StartCacheData(r, id, Payload(DateStrOf(r), r.category))
               ELSE IF outcome = "404" THEN NotFoundReturn(r, id)
               ELSE IF outcome = "500" THEN FailedStatusReturn(r, id, outcome)
               ELSE Step(fetchDailyDataCatch(r, ErrorMessage(outcome)), <<>>, <<>>))
    /\ UNCHANGED <<tz, dn, home, past, hasWindow, dbOpens, now, dataStore, metaStore,
                   published>>

\* StartCacheIndex that prefers the fresh cached index to the fetched one.
StartCacheIndexKeepsCached(r, id, index) ==
    IF r.cachedIndex # NullIndex
    THEN Step(ReturnIndex(r, r.cachedIndex), <<>>, <<>>)
    ELSE IF hasWindow /\ dbOpens
    THEN Step([r EXCEPT !.pc = "ci_put", !.result = IndexResult(index)],
              <<>>, <<Tx("put", <<"metadata">>, MetaEntry(index, now), id)>>)
    ELSE Step(ReturnIndex(r, index), <<>>, <<>>)

\* api.ts 96-104: cacheIndex(index) up to its suspension
StartCacheIndex(r, id, index) ==
    IF hasWindow /\ dbOpens
    THEN Step([r EXCEPT !.pc = "ci_put", !.result = IndexResult(index)],
              <<>>, <<Tx("put", <<"metadata">>, MetaEntry(index, now), id)>>)
    ELSE Step(ReturnIndex(r, index), <<>>, <<>>)

\* IndexFailureReturn that gives up the index read from the cache.
IndexFailureReturnsNull(r) == ReturnIndex(r, NullIndex)

\* api.ts 92-95 and 105-108: the request failed, return cachedIndex
IndexFailureReturn(r) == ReturnIndex(r, r.cachedIndex)

\* api.ts 91-108: the request of getAvailableIndex ends
indexResponse(id, outcome) ==
    /\ calls[id].pc = "fetching_index"
    /\ outcome \in IndexOutcomes
    /\ LET r == [calls[id] EXCEPT !.resp = outcome]
       IN  Apply(id,
               IF outcome = "200" THEN StartCacheIndex(r, id, serverIndex)
               ELSE Step(IndexFailureReturn(r), <<>>, <<>>))
    /\ UNCHANGED <<tz, dn, home, past, hasWindow, dbOpens, now, dataStore, metaStore,
                   published>>

\* api.ts 138-143: the probe of dataExists ends
probeResponse(id, outcome) ==
    /\ calls[id].pc = "probing"
    /\ outcome \in DataOutcomes(DateStrOf(calls[id]), calls[id].category)
    /\ calls' = [calls EXCEPT ![id] =
                    IF outcome = "exception" THEN dataExistsCatch([@ EXCEPT !.resp = outcome])
                    ELSE [@ EXCEPT !.pc = "done", !.resp = outcome,
                                   !.result = BoolResult(outcome \in {"200", "badbody"})]]
    /\ UNCHANGED <<tz, dn, home, past, hasWindow, dbOpens, now, dataStore, metaStore,
                   dataQueue, metaQueue, published>>

----------------------------------------------------------------------------

Next ==
    \/ Tick
    \/ \E day \in ServerDays, category \in Categories : Publish(day, category)
    \/ \E id \in DOMAIN calls, day \in SelectableDays, category \in Categories :
           \/ fetchDailyData(id, day, category)
           \/ dataExists(id, day, category)
    \/ \E id \in DOMAIN calls : getAvailableIndex(id)
    \/ \E id \in DOMAIN calls, category \in Categories :
           getAvailableDates(id, category)
    \/ initCache
    \/ \E id \in DOMAIN calls : Return(id)
    \/ \E ok \in BOOLEAN : getCachedData(ok)
    \/ \E ok \in BOOLEAN : deleteExpired(ok)
    \/ \E outcome \in {"complete", "error", "abort"} : cacheData(outcome)
    \/ clearExpiredCache
    \/ clearExpiredCacheAborts
    \/ \E ok \in BOOLEAN : getCachedIndex(ok)
    \/ \E outcome \in {"complete", "error", "abort"} : cacheIndex(outcome)
    \/ \E id \in DOMAIN calls, outcome \in {"200", "404", "500", "exception", "badbody"} :
           \/ fetchResponse(id, outcome)
           \/ indexResponse(id, outcome)
           \/ probeResponse(id, outcome)

Spec == Init /\ [][Next]_vars

----------------------------------------------------------------------------
(* One caller with a working store, whose history of fetchDailyData calls  *)
(* for one day is kept; calls for the other days go on beside them.        *)

\* The day whose calls the caller remembers.
TrackedDay == Civil(2025, 3, 14)

HistoryInit ==
    /\ tz \in CallerOffsets
    /\ dn = DnIdle
    /\ home = HomeIdle
    /\ hasWindow = TRUE
    /\ dbOpens = TRUE
    /\ now = 0
    /\ dataStore = EmptyStore
    /\ metaStore = NoEntry
    /\ dataQueue = <<>>
    /\ metaQueue = <<>>
    /\ published = {}
    /\ calls = [id \in CallIds |-> IdleCall]
    /\ past = [k \in {<<SelectedDate(TrackedDay), category>> :
                          category \in Categories} |-> "none"]

\* The page's caller: it loads the data of a day and asks whether data
\* exists; the store and the network answer as in Next.
HistoryNext ==
    \/ Tick
    \/ \E day \in ServerDays, category \in Categories : Publish(day, category)
    \/ \E id \in DOMAIN calls, day \in SelectableDays, category \in Categories :
           \/ fetchDailyData(id, day, category)
           \/ dataExists(id, day, category)
    \/ \E id \in DOMAIN calls : Return(id)
    \/ \E ok \in BOOLEAN : getCachedData(ok)
    \/ \E ok \in BOOLEAN : deleteExpired(ok)
    \/ \E outcome \in {"complete", "error", "abort"} : cacheData(outcome)
    \/ \E ok \in BOOLEAN : getCachedIndex(ok)
    \/ \E outcome \in {"complete", "error", "abort"} : cacheIndex(outcome)
    \/ \E id \in DOMAIN calls, outcome \in {"200", "404", "500", "exception", "badbody"} :
           \/ fetchResponse(id, outcome)
           \/ indexResponse(id, outcome)
           \/ probeResponse(id, outcome)

HistorySpec == HistoryInit /\ [][HistoryNext]_vars

----------------------------------------------------------------------------
(* Redundant cache initialisation: initCache is invoked again while the    *)
(* sweep of an earlier invocation is still queued or running, beside the   *)
(* reads and write-backs of fetchDailyData.                                *)

SweepsQueued == {i \in 1..Len(dataQueue) : dataQueue[i].kind = "sweep"}

\* dataCache.ts 235-241, 203-209: initCache invoked while an earlier sweep
\* has not ended; its transaction queues behind that one.
initCacheAgain ==
    /\ hasWindow /\ dbOpens
    /\ Cardinality(SweepsQueued) = 1
    /\ dataQueue' = Append(dataQueue, Tx("sweep", <<>>, NoEntry, 0))
    /\ UNCHANGED <<tz, dn, home, past, hasWindow, dbOpens, now, dataStore, metaStore,
                   metaQueue, published, calls>>

InitCacheInit ==
    /\ tz = 0
    /\ dn = DnIdle
    /\ home = HomeIdle
    /\ hasWindow = TRUE
    /\ dbOpens = TRUE
    /\ now = 0
    /\ dataStore = EmptyStore
    /\ metaStore = NoEntry
    /\ dataQueue = <<>>
    /\ metaQueue = <<>>
    /\ published = {}
    /\ calls = [id \in CallIds |-> IdleCall]
    /\ past = NoPast

InitCacheNext ==
    \/ Tick
    \/ \E day \in ServerDays, category \in Categories : Publish(day, category)
    \/ \E id \in DOMAIN calls, day \in SelectableDays, category \in Categories :
           fetchDailyData(id, day, category)
    \/ initCache
    \/ initCacheAgain
    \/ \E id \in DOMAIN calls : Return(id)
    \/ \E ok \in BOOLEAN : getCachedData(ok)
    \/ \E ok \in BOOLEAN : deleteExpired(ok)
    \/ \E outcome \in {"complete", "error", "abort"} : cacheData(outcome)
    \/ clearExpiredCache
    \/ clearExpiredCacheAborts
    \/ \E id \in DOMAIN calls, outcome \in {"200", "404", "500", "exception", "badbody"} :
           fetchResponse(id, outcome)

InitCacheSpec == InitCacheInit /\ [][InitCacheNext]_vars

----------------------------------------------------------------------------
(* Overlapping calls: two calls of the data-access layer in progress at    *)
(* once, sharing the store and its transaction queues.                     *)

OverlapIds == {1, 2}

\* The metadata record an earlier session's getAvailableIndex left in
\* metaCache (dataCache.ts 127-132).
EarlierPublished == {<<d, category>> : d \in ServerDays, category \in Categories}

EarlierMetaEntry == MetaEntry(IndexOf(EarlierPublished), 0)

OverlapInit ==
    /\ tz = 0
    /\ dn = DnIdle
    /\ home = HomeIdle
    /\ hasWindow = TRUE
    /\ dbOpens = TRUE
    /\ now = 0
    /\ dataStore = EmptyStore
    /\ \/ metaStore = NoEntry /\ published = {}
       \/ metaStore = EarlierMetaEntry /\ published = EarlierPublished
    /\ dataQueue = <<>>
    /\ metaQueue = <<>>
    /\ calls = [id \in OverlapIds |-> IdleCall]
    /\ past = NoPast

OverlapNext ==
    \/ Tick
    \/ \E day \in ServerDays, category \in Categories : Publish(day, category)
    \/ \E id \in DOMAIN calls, day \in SelectableDays, category \in Categories :
           fetchDailyData(id, day, category)
    \/ initCache
    \/ \E id \in DOMAIN calls : Return(id)
    \/ \E ok \in BOOLEAN : getCachedData(ok)
    \/ \E ok \in BOOLEAN : deleteExpired(ok)
    \/ \E outcome \in {"complete", "error", "abort"} : cacheData(outcome)
    \/ clearExpiredCache
    \/ clearExpiredCacheAborts
    \/ \E id \in DOMAIN calls, outcome \in {"200", "404", "500", "exception", "badbody"} :
           fetchResponse(id, outcome)

OverlapSpec == OverlapInit /\ [][OverlapNext]_vars

----------------------------------------------------------------------------
(* Overlapping getAvailableIndex calls.  The server answers a request with *)
(* the index.json it holds at that moment; the response reaches the caller *)
(* later, and responses to different requests arrive in any order.         *)

\* api.ts 91: the server answers GET /data/index.json
indexServed(id) ==
    /\ calls[id].pc = "fetching_index"
    /\ serverIndex # NullIndex
    /\ calls' = [calls EXCEPT ![id] = [@ EXCEPT !.pc = "index_in_flight",
                                                !.body = serverIndex]]
    /\ UNCHANGED <<tz, dn, home, past, hasWindow, dbOpens, now, dataStore, metaStore,
                   dataQueue, metaQueue, published>>

\* api.ts 91-104: the response arrives, its body is parsed and cached
indexArrives(id) ==
    /\ calls[id].pc = "index_in_flight"
    /\ LET r == [calls[id] EXCEPT !.resp = "200"]
       IN  Apply(id, StartCacheIndex(r, id, r.body))
    /\ UNCHANGED <<tz, dn, home, past, hasWindow, dbOpens, now, dataStore, metaStore,
                   published>>

IndexOverlapInit ==
    /\ tz = 0
    /\ dn = DnIdle
    /\ home = HomeIdle
    /\ hasWindow = TRUE
    /\ dbOpens = TRUE
    /\ now = 0
    /\ dataStore = EmptyStore
    /\ metaStore = NoEntry
    /\ dataQueue = <<>>
    /\ metaQueue = <<>>
    /\ published = {}
    /\ calls = [id \in OverlapIds |-> IdleCall]
    /\ past = NoPast

IndexOverlapNext ==
    \/ Tick
    \/ \E day \in ServerDays, category \in Categories : Publish(day, category)
    \/ \E id \in DOMAIN calls : getAvailableIndex(id)
    \/ \E id \in DOMAIN calls : Return(id)
    \/ \E ok \in BOOLEAN : getCachedIndex(ok)
    \/ \E outcome \in {"complete", "error", "abort"} : cacheIndex(outcome)
    \/ \E id \in DOMAIN calls : indexServed(id)
    \/ \E id \in DOMAIN calls : indexArrives(id)
    \/ \E id \in DOMAIN calls, outcome \in {"404", "500", "exception", "badbody"} :
           indexResponse(id, outcome)

IndexOverlapSpec == IndexOverlapInit /\ [][IndexOverlapNext]_vars

----------------------------------------------------------------------------
(* The Home page: its state, its three effects and its two handlers, over  *)
(* the data-access layer.  An effect runs after the render that follows a  *)
(* change of one of its dependencies; a load settles when its call has.    *)
(* The page runs in a browser whose store cannot be opened, so every load  *)
(* goes to the network and settles when its response arrives.              *)

\* The loads the page has in progress at once.
HomeIds == {1, 2}

HomeCategories == {"cs.AI", "cs.CL"}

\* What the site holds while the page is open.
HomePublished ==
    {<<d, "cs.AI">> : d \in ServerDays} \cup {<<DayString(Civil(2025, 3, 13)), "cs.CL">>}

\* A call slot that no load of the page awaits.
NoLoad == [kind |-> "none", active |-> FALSE]

\* page state after useState (68-73), with every effect due to run on mount
NewHome(day) ==
    [mounted |-> TRUE,
     selectedDate |-> SelectedDate(day),
     selectedCategory |-> "cs.AI",
     dailyData |-> NoData,
     loading |-> TRUE,
     availableDates |-> <<>>,
     dataEffect |-> TRUE,
     datesEffect |-> TRUE,
     selectEffect |-> TRUE,
     loads |-> [id \in HomeIds |-> NoLoad]]

\* date-fns isSameDay: the same local calendar day
isSameDay(a, b) == LocalFields(a, tz) = LocalFields(b, tz)

\* The slot a new call takes: the first that is free.
FreeSlot(id) == calls[id].op = "idle" /\ \A i \in HomeIds : i < id => calls[i].op # "idle"

\* 75-90: the effect on [selectedDate, selectedCategory] runs loadData up to
\* its await
HomeLoadData(id) ==
    /\ home.dataEffect
    /\ FreeSlot(id)
    /\ Apply(id, StartGetCachedData(NewCall("fetchDailyData", home.selectedDate,
                                            home.selectedCategory), id))
    /\ home' = [home EXCEPT !.dataEffect = FALSE,
                            !.loading = TRUE,
                            !.loads[id] = [kind |-> "data", active |-> TRUE]]
    /\ UNCHANGED <<tz, dn, past, hasWindow, dbOpens, now, dataStore, metaStore,
                   published>>

\* 79-86: fetchDailyData settled; loadData continues after its await
HomeLoadDataSettles(id) ==
    /\ home.loads[id].kind = "data"
    /\ calls[id].pc \in {"done", "rejected"}
    /\ home' = [home EXCEPT !.dailyData = IF calls[id].pc = "done"
                                          THEN calls[id].result.data ELSE NoData,
                            !.loading = FALSE,
                            !.loads[id] = NoLoad]
    /\ calls' = [calls EXCEPT ![id] = IdleCall]
    /\ UNCHANGED <<tz, dn, past, hasWindow, dbOpens, now, dataStore, metaStore,
                   dataQueue, metaQueue, published>>

\* 92-103: the effect on [selectedCategory]: the cleanup of its previous run
\* clears that run's active flag, then loadAvailableDates runs up to its await
HomeLoadAvailableDates(id) ==
    /\ home.datesEffect
    /\ FreeSlot(id)
    /\ Apply(id, StartGetAvailableIndex(NewCall("getAvailableDates", NoDate,
                                                home.selectedCategory), id))
    /\ home' = [home EXCEPT
                   !.datesEffect = FALSE,
                   !.loads = [i \in HomeIds |->
                                 IF i = id THEN [kind |-> "dates", active |-> TRUE]
                                 ELSE IF home.loads[i].kind = "dates"
                                      THEN [kind |-> "dates", active |-> FALSE]
                                 ELSE home.loads[i]]]
    /\ UNCHANGED <<tz, dn, past, hasWindow, dbOpens, now, dataStore, metaStore,
                   published>>

\* 95-97: getAvailableDates settled; loadAvailableDates continues
HomeLoadAvailableDatesSettles(id) ==
    /\ home.loads[id].kind = "dates"
    /\ calls[id].pc = "done"
    /\ home' = [home EXCEPT
                   !.availableDates = IF home.loads[id].active
                                      THEN calls[id].result.dates ELSE @,
                   !.selectEffect = home.selectEffect \/ home.loads[id].active,
                   !.loads[id] = NoLoad]
    /\ calls' = [calls EXCEPT ![id] = IdleCall]
    /\ UNCHANGED <<tz, dn, past, hasWindow, dbOpens, now, dataStore, metaStore,
                   dataQueue, metaQueue, published>>

\* [...availableDates].sort((a, b) => b.getTime() - a.getTime())[0]
LatestDate(dates) ==
    LET ds == {dates[i] : i \in 1..Len(dates)}
    IN  CHOOSE d \in ds :
            \A e \in ds : e = d \/ KeyLess(DayString(e.day) \o <<PadStart(NumberToString(e.hour), 2)>>,
                                            DayString(d.day) \o <<PadStart(NumberToString(d.hour), 2)>>)

\* 105-116: the effect on [availableDates, selectedDate]
HomeSelectLatest ==
    /\ home.selectEffect
    /\ LET hasSelected == \E i \in 1..Len(home.availableDates) :
                              isSameDay(home.availableDates[i], home.selectedDate)
       IN  home' = IF Len(home.availableDates) = 0 \/ hasSelected
                   THEN [home EXCEPT !.selectEffect = FALSE]
                   ELSE [home EXCEPT !.selectEffect = TRUE,
                                     !.dataEffect = TRUE,
                                     !.selectedDate = LatestDate(home.availableDates)]
    /\ UNCHANGED <<tz, dn, past, hasWindow, dbOpens, now, dataStore, metaStore,
                   dataQueue, metaQueue, published, calls>>

\* 118-120
handleDateChange(day) ==
    /\ home.mounted
    /\ SelectedDate(day) # home.selectedDate
    /\ home' = [home EXCEPT !.selectedDate = SelectedDate(day),
                            !.dataEffect = TRUE,
                            !.selectEffect = TRUE]
    /\ UNCHANGED <<tz, dn, past, hasWindow, dbOpens, now, dataStore, metaStore,
                   dataQueue, metaQueue, published, calls>>

\* 122-124
handleCategoryChange(category) ==
    /\ home.mounted
    /\ category # home.selectedCategory
    /\ home' = [home EXCEPT !.selectedCategory = category,
                            !.dataEffect = TRUE,
                            !.datesEffect = TRUE]
    /\ UNCHANGED <<tz, dn, past, hasWindow, dbOpens, now, dataStore, metaStore,
                   dataQueue, metaQueue, published, calls>>

HomeInit ==
    /\ tz = 0
    /\ dn = DnIdle
    /\ home \in {NewHome(day) : day \in SelectableDays}
    /\ hasWindow = TRUE
    /\ dbOpens = FALSE
    /\ now = 0
    /\ dataStore = EmptyStore
    /\ metaStore = NoEntry
    /\ dataQueue = <<>>
    /\ metaQueue = <<>>
    /\ published = HomePublished
    /\ calls = [id \in HomeIds |-> IdleCall]
    /\ past = NoPast

HomeNext ==
    \/ \E id \in HomeIds : HomeLoadData(id)
    \/ \E id \in HomeIds : HomeLoadDataSettles(id)
    \/ \E id \in HomeIds : HomeLoadAvailableDates(id)
    \/ \E id \in HomeIds : HomeLoadAvailableDatesSettles(id)
    \/ HomeSelectLatest
    \/ \E day \in SelectableDays : handleDateChange(day)
    \/ \E category \in HomeCategories : handleCategoryChange(category)
    \/ \E id \in HomeIds, outcome \in {"200", "404"} : fetchResponse(id, outcome)
    \/ \E id \in HomeIds : indexResponse(id, "200")

HomeSpec == HomeInit /\ [][HomeNext]_vars

----------------------------------------------------------------------------
(* The date functions of utils.ts applied to one input, in every zone.     *)

\* Hours of the day at which a caller's Date may stand.
HoursOfDay == {0, 12, 23}

\* Strings handed to parseLocalDate: canonical day strings, bare or with
\* surrounding blanks, and a string that is no day.
DateInputStrings ==
    {DayString(c) : c \in CivilDays}
    \cup {<<" ">> \o DayString(c) \o <<" ">> : c \in CivilDays}
    \cup {<<"n", "/", "a">>}

\* Times of day in the timestamps handed to parseUtcTimestamp.
TimeTexts == {<<"0", "0", ":", "0", "0", ":", "0", "0">>,
              <<"1", "2", ":", "3", "4", ":", "5", "6">>}

\* Strings handed to parseUtcTimestamp: the pipeline's commit-log shape with
\* either separator and zero to two blanks before UTC, bare or with
\* surrounding blanks; the same with a backslash in place of the blanks; the
\* date-time string format; and a string that is no timestamp.
TimestampInputStrings ==
    {pre \o DayString(c) \o <<sep>> \o t \o gap \o <<"U", "T", "C">> \o pre :
         pre \in {<<>>, <<" ">>}, c \in SelectableDays, sep \in {" ", "T"},
         t \in TimeTexts, gap \in {<<>>, <<" ">>, <<" ", " ">>, <<"\\">>, <<"\\", "s">>}}
    \cup {DayString(c) \o <<"T">> \o t \o <<"Z">> : c \in SelectableDays, t \in TimeTexts}
    \cup {<<"n", "/", "a">>}

\* Categories the pipeline lists in its index.
IndexCategories == {"cs.AI", "cs.CL"}

\* Index values handed to getAvailableDates: the days in index order, and
\* by_date listing some categories, possibly none, under some of the days.
IndexInputs ==
    {[available_dates |-> SortedDays(days),
      categories |-> IndexCategories,
      by_date |-> [d \in listed |-> f[d]]] :
         days \in SUBSET ServerDays \ {{}},
         listed \in SUBSET ServerDays,
         f \in [ServerDays -> SUBSET IndexCategories]}

DateInit ==
    /\ tz \in UtcOffsets
    /\ dn \in {[stage |-> "string", s |-> s, date |-> NoDate, out |-> <<>>] :
                   s \in DateInputStrings}
             \cup {[stage |-> "date", s |-> <<>>,
                    date |-> NewLocalDate(c.y, c.m, c.d, h, tz), out |-> <<>>] :
                   c \in CivilDays, h \in HoursOfDay}
             \cup {[stage |-> "index", s |-> <<>>, date |-> NoDate, out |-> <<>>,
                    index |-> index, category |-> category] :
                   index \in IndexInputs,
                   category \in IndexCategories \cup {NoCategory}}
             \cup {[stage |-> "timestamp", s |-> s, date |-> NoDate, out |-> <<>>,
                    lenient |-> lenient] :
                   s \in TimestampInputStrings, lenient \in BOOLEAN}
    /\ home = HomeIdle
    /\ hasWindow = TRUE
    /\ dbOpens = TRUE
    /\ now = 0
    /\ dataStore = EmptyStore
    /\ metaStore = NoEntry
    /\ dataQueue = <<>>
    /\ metaQueue = <<>>
    /\ published = {}
    /\ calls = [id \in CallIds |-> IdleCall]
    /\ past = NoPast

\* date = parseLocalDate(s)
ParseLocalDate ==
    /\ dn.stage = "string"
    /\ dn' = [dn EXCEPT !.stage = "parsed", !.date = parseLocalDate(dn.s, tz)]
    /\ UNCHANGED <<tz, dalVars>>

\* out = formatUtcDateFromLocal(date), of a caller's Date or of the Date
\* that parseLocalDate returned
FormatUtcDateFromLocal ==
    /\ dn.stage \in {"date", "parsed"}
    /\ dn.date # NoDate
    /\ dn' = [dn EXCEPT !.stage = IF dn.stage = "date" THEN "formatted" ELSE "roundtrip",
                        !.out = formatUtcDateFromLocal(dn.date, tz)]
    /\ UNCHANGED <<tz, dalVars>>

\* out = the Dates getAvailableDates makes of an index (api.ts 116-119)
GetAvailableDates ==
    /\ dn.stage = "index"
    /\ dn' = [dn EXCEPT !.stage = "dates",
                        !.out = AvailableDates(dn.index, dn.category, tz)]
    /\ UNCHANGED <<tz, dalVars>>

\* out = parseUtcTimestamp(s)
ParseUtcTimestamp ==
    /\ dn.stage = "timestamp"
    /\ dn' = [dn EXCEPT !.stage = "instant",
                        !.out = parseUtcTimestamp(dn.s, dn.lenient)]
    /\ UNCHANGED <<tz, dalVars>>

DateNext ==
    \/ ParseLocalDate
    \/ FormatUtcDateFromLocal
    \/ GetAvailableDates
    \/ ParseUtcTimestamp

DateSpec == DateInit /\ [][DateNext]_vars


----------------------------------------------------------------------------
(* Properties.                                                             *)

IsDailyData(d) == {"date", "category", "summary", "papers"} \subseteq DOMAIN d

FetchCalls == {id \in DOMAIN calls : calls[id].op = "fetchDailyData"}

\* C1: fetchDailyData never rejects: whatever the cache read, the request
\* and the write-back end in, a settled call holds a DailyData value.
C1_NeverRejects ==
    \A id \in FetchCalls :
        /\ calls[id].pc # "rejected"
        /\ calls[id].pc = "done" =>
               /\ calls[id].result.kind = "data"
               /\ IsDailyData(calls[id].result.data)

\* A fetchDailyData call has resolved after its cache read failed in the store.
C1_Witness ==
    \E id \in FetchCalls : calls[id].pc = "done" /\ calls[id].read = "error"

\* C2: no record of the content cache, and no record about to be written,
\* is a synthesized placeholder; only a call whose request ended in 200
\* writes to the cache.
C2_NoPlaceholderCached ==
    /\ \A k \in DOMAIN dataStore : ~IsSynthesized(dataStore[k].data)
    /\ \A i \in 1..Len(dataQueue) :
           dataQueue[i].kind = "put" =>
               /\ ~IsSynthesized(dataQueue[i].entry.data)
               /\ calls[dataQueue[i].call].resp = "200"

\* A call has returned a placeholder while the cache holds a record.
C2_Witness ==
    /\ dataStore # EmptyStore
    /\ \E id \in FetchCalls :
           calls[id].pc = "done" /\ IsSynthesized(calls[id].result.data)

\* C3: when the cache read of fetchDailyData goes through and the store
\* holds a record at the call's key whose age is at most the TTL, the call
\* resolves to that record's data without a network request.
C3_CacheFirst ==
    [][\A id \in FetchCalls :
          LET r == calls[id]
              key == KeyOf(r)
          IN  ( /\ r.pc = "gcd_get"
                /\ calls'[id].pc # "gcd_get"
                /\ calls'[id].read # "error"
                /\ key \in DOMAIN dataStore
                /\ now - dataStore[key].timestamp <= CACHE_EXPIRATION )
              => /\ calls'[id].pc = "done"
                 /\ calls'[id].result = DataResult(dataStore[key].data)
                 /\ calls'[id].resp = "none"]_vars

\* A call was served from a record exactly one TTL old.
C3_Witness ==
    \E id \in FetchCalls :
        /\ calls[id].pc = "done" /\ calls[id].read = "hit" /\ calls[id].resp = "none"
        /\ KeyOf(calls[id]) \in DOMAIN dataStore
        /\ now - dataStore[KeyOf(calls[id])].timestamp = CACHE_EXPIRATION

\* C4: in both stores a completed put leaves the value it was given under
\* its key, and a get that goes through returns the stored value while its
\* age is at most the TTL and absent once the age exceeds the TTL, the
\* record still being in the store.
C4_CacheFreshness ==
    [][\A id \in DOMAIN calls :
          LET r == calls[id]
              q == calls'[id]
              key == KeyOf(r)
          IN  /\ (r.pc = "cd_put" /\ q.pc # "cd_put" /\ q.write = "complete")
                 => /\ key \in DOMAIN dataStore'
                    /\ dataStore'[key].data = r.result.data
                    /\ dataStore'[key].timestamp <= now
              /\ (r.pc = "ci_put" /\ q.pc # "ci_put" /\ q.write = "complete")
                 => /\ metaStore' # NoEntry
                    /\ metaStore'.index = r.result.index
                    /\ metaStore'.lastUpdated <= now
              /\ (r.pc = "gcd_get" /\ q.pc # "gcd_get" /\ q.read # "error"
                  /\ key \in DOMAIN dataStore)
                 => IF now - dataStore[key].timestamp <= CACHE_EXPIRATION
                    THEN q.cachedData = dataStore[key].data
                    ELSE q.cachedData = NoData
              /\ (r.pc = "gci_get" /\ q.pc # "gci_get" /\ q.read # "error"
                  /\ metaStore # NoEntry)
                 => IF now - metaStore.lastUpdated <= CACHE_EXPIRATION
                    THEN q.cachedIndex = metaStore.index
                    ELSE q.cachedIndex = NullIndex]_vars

\* A read of the index found the record older than the TTL and returned
\* absent, the record still being in the store.
C4_Witness ==
    \E id \in DOMAIN calls :
        /\ calls[id].pc = "fetching_index" /\ calls[id].read = "expired"
        /\ metaStore # NoEntry
        /\ now - metaStore.lastUpdated > CACHE_EXPIRATION

\* C5: every read and write of the content cache uses the key made of the
\* canonical UTC day string, the one of the request URL, and the category.
C5_CanonicalCacheKey ==
    \A i \in 1..Len(dataQueue) :
        dataQueue[i].kind \in {"get", "put"} =>
            dataQueue[i].key = DateStrOf(calls[dataQueue[i].call])
                               \o <<"/", calls[dataQueue[i].call].category>>

\* C6: formatUtcDateFromLocal(parseLocalDate(s)) = s for every canonical
\* day string s, in every time zone.
C6_RoundTrip ==
    (dn.stage = "roundtrip" /\ DATE_RE(dn.s)) => dn.out = dn.s

\* C7: for a caller between UTC-12 and UTC+12, formatUtcDateFromLocal
\* returns the year, month and day of the caller's local calendar date.
C7_NoonAnchorKeepsDay ==
    (dn.stage = "formatted" /\ tz \in (0 - 12)..12)
        => /\ DATE_RE(dn.out)
           /\ DayStringFields(dn.out) = LocalFields(dn.date, tz)

\* C8: the Date that parseLocalDate returns for a canonical day string has
\* the local year, month and day that the string names, in every time zone.
C8_ParseKeepsLocalDay ==
    (dn.stage = "parsed" /\ DATE_RE(dn.s))
        => LocalFields(dn.date, tz) = DayStringFields(dn.s)

\* C9: a call whose request was answered 404 resolves to the no_papers
\* placeholder: the canonical day of the requested date, the requested
\* category, no papers, a non-empty summary.
C9_NotFoundPlaceholder ==
    \A id \in FetchCalls :
        (calls[id].pc = "done" /\ calls[id].resp = "404") =>
            LET d == calls[id].result.data
            IN  /\ d.date = formatUtcDateFromLocal(calls[id].date, tz)
                /\ d.category = calls[id].category
                /\ d.papers = <<>>
                /\ "processing_status" \in DOMAIN d
                /\ d.processing_status = "no_papers"
                /\ NonEmptyText(d.summary)

\* A call has resolved after a 404 that followed a cache miss.
C9_Witness ==
    \E id \in FetchCalls :
        calls[id].pc = "done" /\ calls[id].resp = "404" /\ calls[id].read = "absent"

\* C10: a call whose request ended in a non-2xx status other than 404 or in
\* a transport exception resolves to a DailyData without papers, with
\* processing_status "failed" and a non-empty error text.
C10_FailedPlaceholder ==
    \A id \in FetchCalls :
        (calls[id].pc = "done" /\ calls[id].resp \in {"500", "exception"}) =>
            LET d == calls[id].result.data
            IN  /\ d.papers = <<>>
                /\ "processing_status" \in DOMAIN d
                /\ d.processing_status = "failed"
                /\ "error" \in DOMAIN d
                /\ NonEmptyText(d.error)

\* A call has resolved after a 500 that followed the read of an expired
\* cache record.
C10_Witness ==
    \E id \in FetchCalls :
        calls[id].pc = "done" /\ calls[id].resp = "500" /\ calls[id].read = "expired"

\* C11 as stated: a call whose request was answered 200 resolves to a
\* value without a processing_status field.
C11_NoStatusOn200 ==
    \A id \in FetchCalls :
        (calls[id].pc = "done" /\ calls[id].resp = "200") =>
            "processing_status" \notin DOMAIN calls[id].result.data

\* C11 amended: a call whose request was answered 200 resolves to the
\* payload of the response as it was parsed, field for field; it carries a
\* processing_status exactly when the payload does, and that one is never
\* "no_papers" or "failed" made up by fetchDailyData.
C11_PayloadUnchanged ==
    \A id \in FetchCalls :
        (calls[id].pc \in {"cd_put", "done", "stuck"} /\ calls[id].resp = "200") =>
            /\ calls[id].result = DataResult(Payload(DateStrOf(calls[id]), calls[id].category))
            /\ ~IsSynthesized(calls[id].result.data)

\* A call has resolved to the payload of a 200 response after the
\* write-back completed.
C11_Witness ==
    \E id \in FetchCalls :
        /\ calls[id].pc = "done" /\ calls[id].resp = "200"
        /\ calls[id].write = "complete"
        /\ "processing_status" \in DOMAIN calls[id].result.data

\* C12: when the last fetchDailyData(d, c) resolved to a placeholder, the
\* next call for the same d and c whose request the server answers 200
\* resolves to the payload of that response, and it resolves to a
\* placeholder only when its own cache read or its own request failed: no
\* earlier placeholder is served in place of the retry.
C12_RetryAfterPlaceholder ==
    \A id \in FetchCalls :
        LET r == calls[id]
            k == <<r.date, r.category>>
        IN  (k \in DOMAIN past /\ past[k] = "placeholder" /\ r.pc = "done") =>
                /\ r.resp = "200" =>
                       r.result = DataResult(Payload(DateStrOf(r), r.category))
                /\ IsSynthesized(r.result.data) =>
                       \/ r.read = "error"
                       \/ r.resp \in {"404", "500", "exception", "badbody"}

\* The call after one that resolved to a placeholder has resolved to the
\* payload the server now serves.
C12_Witness ==
    \E id \in FetchCalls :
        LET r == calls[id]
            k == <<r.date, r.category>>
        IN  /\ k \in DOMAIN past /\ past[k] = "placeholder"
            /\ r.pc = "done" /\ r.resp = "200"
            /\ r.result = DataResult(Payload(DateStrOf(r), r.category))

\* C13: a call of fetchDailyData or dataExists whose read of the content
\* cache failed in the store goes on as after a miss: it has settled only
\* after a network request of its own ended (the data request of
\* fetchDailyData; the index request or the probe of dataExists).
C13_ReadFailureIsMiss ==
    \A id \in DOMAIN calls :
        LET r == calls[id]
        IN  ( /\ r.op \in {"fetchDailyData", "dataExists"}
              /\ r.pc = "done"
              /\ r.read = "error" )
            => r.resp # "none"

\* C14: every fetchDailyData call that has not resolved yet has an event
\* ahead that resumes it, its network request in flight or a transaction of
\* its own in the store's queue, so that fair storage and network events
\* bring it to a returned value; no call is left waiting on a transaction
\* that has already ended.
C14_EventuallyResolves ==
    \A id \in FetchCalls :
        calls[id].pc # "done" =>
            \/ calls[id].pc = "fetching"
            \/ \E i \in 1..Len(dataQueue) : dataQueue[i].call = id

IndexCalls == {id \in DOMAIN calls : calls[id].op = "getAvailableIndex"}

\* C15: when the index request of getAvailableIndex is answered 200 the call
\* takes the index of the response, whatever its cache read returned, and
\* resolves to it once the write-back has ended; a write-back that completes
\* leaves in the store exactly the fetched index and its time stamp, nothing
\* of the record before.
C15_FetchedIndexWins ==
    [][\A id \in DOMAIN calls :
          LET r == calls[id]
              q == calls'[id]
          IN  /\ ( /\ r.op = "getAvailableIndex"
                    /\ r.pc = "fetching_index" /\ q.pc # "fetching_index"
                    /\ q.resp = "200" )
                 => /\ q.pc \in {"ci_put", "done"}
                    /\ q.result = IndexResult(serverIndex)
              /\ ( /\ r.op = "getAvailableIndex"
                    /\ r.pc = "ci_put" /\ q.pc # "ci_put"
                    /\ q.write # "abort" )
                 => /\ q.pc = "done"
                    /\ q.result = r.result
              /\ (r.pc = "ci_put" /\ q.pc # "ci_put" /\ q.write = "complete")
                 => /\ DOMAIN metaStore' = {"index", "lastUpdated"}
                    /\ metaStore'.index = r.result.index]_vars

\* A call has resolved to the fetched index although its cache read had
\* returned a fresh index that differs from it, and the store now holds the
\* fetched one.
C15_Witness ==
    \E id \in IndexCalls :
        /\ calls[id].pc = "done" /\ calls[id].resp = "200"
        /\ calls[id].read = "hit"
        /\ calls[id].cachedIndex # calls[id].result.index
        /\ calls[id].write = "complete"
        /\ metaStore # NoEntry
        /\ metaStore.index = calls[id].result.index

\* The ways the index request fails: a status outside 200-299, a transport
\* exception, a body that does not parse.
IndexFailures == {"404", "500", "exception", "badbody"}

\* C16 as stated: a getAvailableIndex call whose request failed resolves to
\* null only when the store holds no index record.
C16_NullOnlyWithoutRecord ==
    \A id \in IndexCalls :
        ( /\ calls[id].pc = "done"
          /\ calls[id].resp \in {"404", "500", "exception"}
          /\ calls[id].result.index = NullIndex )
        => metaStore = NoEntry

\* C16 amended: a getAvailableIndex call whose request failed resolves to
\* what its cache read returned: the stored index when the read went
\* through and the record was at most the TTL old, and null when the store
\* held no record, when the record was older than the TTL, or when the read
\* failed.
C16_FallbackToCacheRead ==
    \A id \in IndexCalls :
        LET r == calls[id]
        IN  (r.pc = "done" /\ r.resp \in IndexFailures) =>
                /\ r.result = IndexResult(r.cachedIndex)
                /\ IF r.read = "hit"
                   THEN /\ metaStore # NoEntry
                        /\ r.result.index = metaStore.index
                        /\ r.result.index # NullIndex
                   ELSE r.result.index = NullIndex

\* A call whose request failed has resolved to the index an earlier call
\* had cached.
C16_Witness ==
    \E id \in IndexCalls :
        /\ calls[id].pc = "done" /\ calls[id].resp = "500"
        /\ calls[id].read = "hit"
        /\ calls[id].result.index = metaStore.index

ExistsCalls == {id \in DOMAIN calls : calls[id].op = "dataExists"}

\* C17 as stated: once the last fetchDailyData(d, c) has resolved to a
\* payload, a dataExists(d, c) call issues no network request and resolves
\* to true.
C17_ExistsAfterFetch ==
    \A id \in ExistsCalls :
        LET r == calls[id]
            k == <<r.date, r.category>>
        IN  (k \in DOMAIN past /\ past[k] = "payload") =>
                /\ r.pc \notin {"fetching_index", "ci_put", "probing"}
                /\ r.resp = "none"
                /\ r.pc = "done" => r.result = BoolResult(TRUE)

\* C17 amended: when the cache read of dataExists(d, c) goes through and
\* the store holds the record that fetchDailyData(d, c) wrote back, at most
\* the TTL old, the call resolves to true without a network request.
C17_ExistsFromCache ==
    [][\A id \in ExistsCalls :
          LET r == calls[id]
              q == calls'[id]
              key == KeyOf(r)
          IN  ( /\ r.pc = "gcd_get" /\ q.pc # "gcd_get"
                /\ q.read # "error"
                /\ key \in DOMAIN dataStore
                /\ now - dataStore[key].timestamp <= CACHE_EXPIRATION )
              => /\ q.pc = "done"
                 /\ q.result = BoolResult(TRUE)
                 /\ q.resp = "none"]_vars

\* After fetchDailyData resolved to a payload, dataExists for the same
\* date and category has resolved to true from the cache.
C17_Witness ==
    \E id \in ExistsCalls :
        LET r == calls[id]
            k == <<r.date, r.category>>
        IN  /\ k \in DOMAIN past /\ past[k] = "payload"
            /\ r.pc = "done" /\ r.read = "hit" /\ r.resp = "none"
            /\ r.result = BoolResult(TRUE)

\* by_date[day] of the index lists the category.
ListedUnder(index, day, category) ==
    /\ day \in DOMAIN index.by_date
    /\ category \in index.by_date[day]

\* C18: after a miss of the content cache dataExists answers from the
\* index.  When its index request is answered 200, or fails while the cache
\* read returned an index, the call resolves to whether by_date of that
\* index lists the category under the canonical day of the date; it probes
\* /data/{day}/{category}.json only after the request failed with no index
\* from the cache, and then resolves to whether the probe's status is 2xx.
C18_AnswersFromIndex ==
    [][\A id \in ExistsCalls :
          LET r == calls[id]
              q == calls'[id]
              day == formatUtcDateFromLocal(r.date, tz)
          IN  /\ (r.pc = "fetching_index" /\ q.pc # "fetching_index" /\ q.resp = "200")
                 => \/ q.pc = "ci_put" /\ q.result = IndexResult(serverIndex)
                    \/ /\ q.pc = "done"
                       /\ q.result = BoolResult(ListedUnder(serverIndex, day, r.category))
              /\ ( /\ r.pc = "fetching_index" /\ q.pc # "fetching_index"
                    /\ q.resp # "200" /\ r.cachedIndex # NullIndex )
                 => /\ q.pc = "done"
                    /\ q.result = BoolResult(ListedUnder(r.cachedIndex, day, r.category))
              /\ (r.pc = "ci_put" /\ q.pc \notin {"ci_put", "stuck"})
                 => /\ q.pc = "done"
                    /\ q.result = BoolResult(ListedUnder(r.result.index, day, r.category))
              /\ (r.pc # "probing" /\ q.pc = "probing")
                 => /\ r.pc = "fetching_index"
                    /\ q.resp \in IndexFailures
                    /\ r.cachedIndex = NullIndex
              /\ (r.pc = "probing" /\ q.pc # "probing")
                 => /\ q.pc = "done"
                    /\ q.result = BoolResult(q.resp \in {"200", "badbody"})]_vars

\* A dataExists call has resolved to false from a fetched index that lists
\* other days only.
C18_Witness ==
    \E id \in ExistsCalls :
        /\ calls[id].pc = "done" /\ calls[id].resp = "200"
        /\ serverIndex # NullIndex
        /\ calls[id].result = BoolResult(FALSE)

\* The days of index.available_dates that getAvailableDates is to return
\* for a category: those under which by_date lists it, all without one.
RECURSIVE DaysFor(_, _, _)
DaysFor(index, days, category) ==
    IF days = <<>> THEN <<>>
    ELSE (IF category = NoCategory \/ ListedUnder(index, Head(days), category)
          THEN <<Head(days)>> ELSE <<>>)
         \o DaysFor(index, Tail(days), category)

\* C19: the Dates getAvailableDates returns are, in index order, the days d
\* of index.available_dates under which by_date lists the category, every
\* day when no category is given: as many Dates as such days, the i-th
\* one being the caller's calendar day that the i-th day string names.
C19_ExactlyListedDays ==
    dn.stage = "dates" =>
        LET days == DaysFor(dn.index, dn.index.available_dates, dn.category)
        IN  /\ Len(dn.out) = Len(days)
            /\ \A i \in 1..Len(days) :
                   /\ dn.out[i] # NoDate
                   /\ LocalFields(dn.out[i], tz) = DayStringFields(days[i])

GetDatesCalls == {id \in DOMAIN calls : calls[id].op = "getAvailableDates"}

\* C20: getAvailableDates never rejects; a settled call holds a sequence of
\* Dates, and the empty sequence when the index request failed and the
\* cache read returned no index.
C20_DatesNeverReject ==
    \A id \in GetDatesCalls :
        LET r == calls[id]
        IN  /\ r.pc # "rejected"
            /\ r.pc = "done" =>
                   /\ r.result.kind = "dates"
                   /\ DOMAIN r.result.dates = 1..Len(r.result.dates)
                   /\ \A i \in 1..Len(r.result.dates) : r.result.dates[i] # NoDate
                   /\ (r.resp \in IndexFailures /\ r.cachedIndex = NullIndex)
                          => r.result.dates = <<>>

\* A call has resolved to the empty sequence after its request failed while
\* the store held an index record too old to be returned.
C20_Witness ==
    \E id \in GetDatesCalls :
        /\ calls[id].pc = "done" /\ calls[id].resp = "exception"
        /\ calls[id].read = "expired" /\ metaStore # NoEntry
        /\ calls[id].result = DatesResult(<<>>)

\* C21: a call whose cache write (cacheData or cacheIndex) ended in a
\* failed transaction, by an error event or by an abort, goes on as if the
\* write had been a no-op: it has resolved.
C21_WriteFailureSwallowed ==
    \A id \in DOMAIN calls :
        calls[id].write \in {"error", "abort"} => calls[id].pc = "done"

\* What fetchDailyData returns when it only asks the network.
NetworkOnlyData(r, outcome) ==
    LET day == formatUtcDateFromLocal(r.date, tz)
    IN  IF outcome = "200" THEN Payload(day, r.category)
        ELSE IF outcome = "404" THEN NoPapersData(day, r.category)
        ELSE IF outcome = "500"
             THEN FailedStatusData(day, r.category, outcome, StatusText(outcome))
        ELSE FailedExceptionData(day, r.category, ErrorMessage(outcome))

\* C22: without a window object, or when the store cannot be opened, every
\* call behaves as a network-only implementation with an empty cache: it
\* creates no transaction, goes straight to its request, and resolves to
\* what the response alone determines; it never rejects and never hangs.
C22_NetworkOnlyWithoutStorage ==
    [][~(hasWindow /\ dbOpens) =>
          /\ dataQueue' = <<>> /\ metaQueue' = <<>>
          /\ dataStore' = EmptyStore /\ metaStore' = NoEntry
          /\ \A id \in DOMAIN calls :
                LET r == calls[id]
                    q == calls'[id]
                    day == formatUtcDateFromLocal(r.date, tz)
                IN  /\ q.pc \in {"idle", "fetching", "fetching_index", "probing", "done"}
                    /\ (r.op = "idle" /\ q.op = "fetchDailyData") => q.pc = "fetching"
                    /\ (r.op = "idle" /\ q.op \in {"getAvailableIndex", "dataExists"})
                           => q.pc = "fetching_index"
                    /\ (r.pc = "fetching" /\ q.pc # "fetching")
                           => /\ q.pc = "done"
                              /\ q.result = DataResult(NetworkOnlyData(r, q.resp))
                    /\ ( /\ r.op = "getAvailableIndex"
                          /\ r.pc = "fetching_index" /\ q.pc # "fetching_index" )
                           => /\ q.pc = "done"
                              /\ q.result = IndexResult(IF q.resp = "200" THEN serverIndex
                                                         ELSE NullIndex)
                    /\ ( /\ r.op = "dataExists"
                          /\ r.pc = "fetching_index" /\ q.pc # "fetching_index" )
                           => IF q.resp = "200"
                              THEN /\ q.pc = "done"
                                   /\ q.result =
                                          BoolResult(ListedUnder(serverIndex, day, r.category))
                              ELSE q.pc = "probing"
                    /\ (r.pc = "probing" /\ q.pc # "probing")
                           => /\ q.pc = "done"
                              /\ q.result = BoolResult(q.resp \in {"200", "badbody"})]_vars

\* In a browser whose store cannot be opened a fetchDailyData call has
\* resolved to the payload of a 200 response.
C22_Witness ==
    /\ hasWindow /\ ~dbOpens
    /\ \E id \in FetchCalls :
           /\ calls[id].pc = "done" /\ calls[id].resp = "200"
           /\ calls[id].result = DataResult(NetworkOnlyData(calls[id], "200"))

\* C23: each visit of the sweep's cursor goes to the next key of the
\* content store, deletes the record there when its age exceeds the TTL at
\* that moment and leaves it as it is otherwise; every other record and
\* the metadata record stay unchanged, also when the sweep's transaction
\* ends, so that a sweep that completes has deleted exactly the records
\* that were older than the TTL when visited.
C23_SweepDeletesExpiredOnly ==
    [][HeadIs(dataQueue, "sweep") =>
          LET tx == dataQueue[1]
          IN  /\ ( /\ Len(dataQueue') >= 1
                    /\ dataQueue'[1].kind = "sweep"
                    /\ dataQueue'[1].key # tx.key )
                 => LET k == dataQueue'[1].key
                    IN  /\ k = NextKey(dataStore, tx.key)
                        /\ dataStore' =
                               IF now - dataStore[k].timestamp > CACHE_EXPIRATION
                               THEN StoreDelete(dataStore, k)
                               ELSE dataStore
              /\ (Len(dataQueue') >= 1 /\ dataQueue'[1] = tx) => dataStore' = dataStore
              /\ Len(dataQueue') = Len(dataQueue) - 1
                 => \/ dataStore' = dataStore
                    \/ tx.started /\ dataStore' = tx.undo
              /\ (Len(dataQueue') = 0 \/ dataQueue'[1] # tx) => metaStore' = metaStore]_vars

\* A sweep in progress has deleted a record older than the TTL and has
\* passed a younger one, which is still there; the metadata record exists.
C23_Witness ==
    /\ HeadIs(dataQueue, "sweep")
    /\ dataQueue[1].started
    /\ \E k \in DOMAIN dataQueue[1].undo : k \notin DOMAIN dataStore
    /\ \E j \in DOMAIN dataStore :
           /\ ~KeyLess(dataQueue[1].key, j)
           /\ dataStore[j] = dataQueue[1].undo[j]
    /\ metaStore # NoEntry

\* C24: initCache is safe to invoke redundantly.  A sweep, whether it ran
\* alone, behind the sweep of an earlier invocation or between other cache
\* operations, ends with a store that holds only records it found, with
\* every record not older than the TTL exactly as it found it; a sweep that
\* finds no record older than the TTL, as the sweep of an earlier invocation
\* leaves the store, ends with the store it began with; the metadata
\* partition is as before.
C24_RedundantInitCacheIsNoOp ==
    [][(HeadIs(dataQueue, "sweep") /\ dataQueue' = Tail(dataQueue)) =>
          LET tx == dataQueue[1]
              before == IF tx.started THEN tx.undo ELSE dataStore
              live == {k \in DOMAIN before :
                          ~(now - before[k].timestamp > CACHE_EXPIRATION)}
          IN  /\ DOMAIN dataStore' \subseteq DOMAIN before
              /\ \A k \in live : k \in DOMAIN dataStore' /\ dataStore'[k] = before[k]
              /\ live = DOMAIN before => dataStore' = before
              /\ metaStore' = metaStore]_vars

\* Two invocations overlap: the sweep of the second is queued behind the
\* sweep of the first, which has removed an expired record and kept a
\* record that is not older than the TTL.
C24_Witness ==
    /\ Cardinality(SweepsQueued) = 2
    /\ HeadIs(dataQueue, "sweep")
    /\ dataQueue[1].started
    /\ \E k \in DOMAIN dataQueue[1].undo : k \notin DOMAIN dataStore
    /\ \E j \in DOMAIN dataStore :
           /\ ~KeyLess(dataQueue[1].key, j)
           /\ dataStore[j] = dataQueue[1].undo[j]

\* C25: parseUtcTimestamp recognises every string of the shape
\* "YYYY-MM-DD HH:MM:SS UTC" (a day, a blank or a T, a time of day, blanks
\* or none, UTC) with its dedicated pattern and returns the UTC instant the
\* string names; a string that neither the pattern nor generic parsing
\* accepts yields null.
C25_ShapeParsedByPattern ==
    dn.stage = "instant" =>
        LET trimmed == Trim(dn.s)
            shaped == /\ Len(trimmed) >= 22
                      /\ IsDayText(SubSeq(trimmed, 1, 10))
                      /\ trimmed[11] \in {" ", "T"}
                      /\ IsTimeText(SubSeq(trimmed, 12, 19))
                      /\ IsRunOf(SubSeq(trimmed, 20, Len(trimmed) - 3), " ")
                      /\ SubSeq(trimmed, Len(trimmed) - 2, Len(trimmed)) = <<"U", "T", "C">>
        IN  /\ shaped =>
                  /\ UTC_TIMESTAMP_RE(trimmed)
                  /\ dn.out = UtcTimestamp(DayStringFields(SubSeq(trimmed, 1, 10)),
                                           TimeStringFields(SubSeq(trimmed, 12, 19)))
            /\ ( /\ ~UTC_TIMESTAMP_RE(trimmed)
                 /\ NewDateOfText(trimmed, dn.lenient) = InvalidTimestamp )
               => dn.out = NullTimestamp

\* Two fetchDailyData calls in progress for the same key, both of which
\* found no record at it.
ColdPair(cs) ==
    /\ \A id \in OverlapIds : cs[id].op = "fetchDailyData" /\ cs[id].read = "absent"
    /\ cs[1].date = cs[2].date
    /\ cs[1].category = cs[2].category

\* C26: two fetchDailyData calls for the same (date, category) that overlap
\* on a cold cache are not coalesced.  A call that misses the cache issues
\* its own network request whatever the other call is doing; neither call
\* rejects, and each resolves to a DailyData; and when the later of their
\* two write-backs completes, the one record at their key holds the payload
\* that one of them fetched.
C26_OverlappingFetchesNotCoalesced ==
    [][ /\ \A id \in OverlapIds :
               ( /\ calls[id].op = "fetchDailyData"
                 /\ calls[id].pc = "gcd_get"
                 /\ calls'[id].read = "absent" )
               => calls'[id].pc = "fetching"
        /\ ColdPair(calls') =>
               /\ \A id \in OverlapIds : calls'[id].pc # "rejected"
               /\ \A id \in OverlapIds :
                      calls'[id].pc = "done" =>
                          /\ calls'[id].result.kind = "data"
                          /\ IsDailyData(calls'[id].result.data)
               /\ ( /\ calls' # calls
                     /\ \A id \in OverlapIds :
                            /\ calls'[id].pc = "done"
                            /\ calls'[id].resp = "200"
                            /\ calls'[id].write = "complete" )
                  => LET key == KeyOf(calls'[1])
                     IN  /\ key \in DOMAIN dataStore'
                         /\ dataStore'[key].data \in
                                {calls'[id].result.data : id \in OverlapIds} ]_vars

\* Both calls missed the cache and have their own request in flight.
C26_Witness ==
    /\ ColdPair(calls)
    /\ \A id \in OverlapIds : calls[id].pc = "fetching"

\* C27: a fetchDailyData call only writes or deletes the content record at
\* its own key.  Every transaction a call creates on dataCache, the delete
\* its read leaves behind included, carries the key of that call; a read,
\* write-back or delete leaves every record at another key as it was; and
\* no step of a fetchDailyData call creates a transaction on metaCache or
\* changes the metadata record.
C27_WritesOwnKeyOnly ==
    [][ /\ \A i \in 1..Len(dataQueue') :
               dataQueue'[i].kind \in {"get", "put"} =>
                   /\ dataQueue'[i].call \in OverlapIds
                   /\ calls'[dataQueue'[i].call].op = "fetchDailyData"
                   /\ dataQueue'[i].key = KeyOf(calls'[dataQueue'[i].call])
        /\ ( /\ HeadIs(dataQueue, "get")
              /\ calls'[dataQueue[1].call] # calls[dataQueue[1].call] )
           => \A i \in Len(dataQueue)..Len(dataQueue') :
                  dataQueue'[i].kind = "delete" =>
                      dataQueue'[i].key = KeyOf(calls[dataQueue[1].call])
        /\ ( /\ Len(dataQueue) > 0
              /\ dataQueue[1].kind \in {"get", "put", "delete"} )
           => \A k \in DOMAIN dataStore \cup DOMAIN dataStore' :
                  k # dataQueue[1].key => StoreGet(dataStore', k) = StoreGet(dataStore, k)
        /\ (\E id \in OverlapIds : calls'[id] # calls[id]) =>
               /\ metaStore' = metaStore
               /\ metaQueue' = metaQueue ]_vars

\* A call wrote the record at its key while the record at the other key
\* and the metadata record were in the store.
C27_Witness ==
    /\ metaStore = EarlierMetaEntry
    /\ \E id \in OverlapIds :
           /\ calls[id].pc = "done"
           /\ calls[id].write = "complete"
           /\ KeyOf(calls[id]) \in DOMAIN dataStore
           /\ dataStore[KeyOf(calls[id])].timestamp = now
           /\ \E j \in DOMAIN dataStore :
                  /\ j # KeyOf(calls[id])
                  /\ dataStore[j].timestamp < now

\* C28: a content record is deleted only when its own age exceeds the TTL.
\* Whatever removes a record from dataCache (the delete a read left behind,
\* the sweep), the record removed was written more than one TTL ago.
C28_OnlyExpiredDeleted ==
    [][\A k \in DOMAIN dataStore :
           k \notin DOMAIN dataStore' =>
               \/ now - dataStore[k].timestamp > CACHE_EXPIRATION
               \/ /\ HeadIs(dataQueue, "sweep")
                  /\ dataQueue[1].started
                  /\ k \notin DOMAIN dataQueue[1].undo]_vars

\* C29: under any interleaving of overlapping getAvailableIndex calls the
\* cached index is never replaced by an older server version: whenever the
\* metadata record changes, the index it holds afterwards lists every day
\* and category that the index it held before listed.
C29_IndexNeverOlder ==
    [][(metaStore # NoEntry /\ metaStore' # NoEntry) =>
          \A d \in DOMAIN metaStore.index.by_date :
              /\ d \in DOMAIN metaStore'.index.by_date
              /\ metaStore.index.by_date[d] \subseteq metaStore'.index.by_date[d]]_vars

\* C30: in the Home page, once every load of daily data has settled and no
\* effect is due to run, the displayed dailyData is the result for the
\* selected date and category.
C30_DisplayedIsSelected ==
    ( /\ home.mounted
      /\ ~home.dataEffect
      /\ ~home.selectEffect
      /\ \A id \in HomeIds : home.loads[id].kind # "data" )
    => /\ home.dailyData # NoData
       /\ home.dailyData.date = formatUtcDateFromLocal(home.selectedDate, tz)
       /\ home.dailyData.category = home.selectedCategory

====
